---- MODULE Spec2Model ----
(***************************************************************************)
(* The notification scheduler of the travel-planning backend               *)
(* (scripts/notification_scheduler.py) together with the request handlers  *)
(* that change the rows it reads (controllers/auth.py, routes/itinerary.py)*)
(*                                                                         *)
(* Granularity.  The scheduler is its own OS process; the request handlers *)
(* run in the API server and reach the same database.  A scheduler step is *)
(* the code between two awaited upstream network calls (directions, place  *)
(* details, text search, weather, push gateway): the database statements   *)
(* and the Python code up to the moment the next upstream call is issued   *)
(* are one step, and the code that runs on the reply is the next.  Request *)
(* handlers are one step each (one transaction) and may run between any    *)
(* two scheduler steps.                                                    *)
(*                                                                         *)
(* Time is in whole minutes.  now = minutes since 00:00 of day 0; a date   *)
(* is a day number.  Each rule reads the clock once when it starts.        *)
(***************************************************************************)
EXTENDS Integers, Sequences, FiniteSets, Bags, TLC

\* ------------------------------------------------------------------ bounds
MaxCycles == 1        \* sleeps that elapse: one more cycle each
MaxApiCalls == 1      \* request-handler calls in one behaviour
MaxBookmarkCalls == 3 \* calls of the bookmark handlers in one behaviour
MaxDayCycles == 7     \* sleeps that elapse in a run that follows an item to its time

\* ------------------------------------------------------- program constants
SleepMinutes == 15           \* asyncio.sleep(900)
LookAheadMinutes == 90       \* timedelta(minutes=90)
BufferMinutes == 10          \* travel_time_sec // 60 + 10
DefaultTravelSeconds == 900  \* 15 * 60
TipsWindowMinutes == 360     \* timedelta(hours=6)
RainWindowSeconds == 7200    \* abs(...) < 7200
MinRating == 45              \* rating >= 4.5, ratings are in tenths
MinutesPerDay == 1440

\* ------------------------------------------------------------ value domains
None == "None"
Users == {1, 2}
Tokens == {"t1", "t2"}
Schedulers == {1, 2}
ItemIds == {1, 2, 3}
Places == {"pA", "pB", "pC"}
Flags == {"allow_smart_alerts", "allow_opportunity_alerts", "allow_real_time_tips"}
outdoor_types == {"park", "zoo", "natural_feature", "tourist_attraction", "hiking"}

\* Itinerary ids, and a row of the table: owner and inclusive date range.
Itineraries == {1, 2, 3}
NoItinerary == [exists |-> FALSE, user_id |-> 0, start_date |-> 0, end_date |-> 0]
Itinerary(u, start, end) ==
    [exists |-> TRUE, user_id |-> u, start_date |-> start, end_date |-> end]

\* scheduled_time is an unvalidated string column.  The strings of the model,
\* and what time.fromisoformat makes of each: minutes after midnight, or
\* ValueError for a string that is no ISO time.
TimeStrings == {"09:10", "09:40", "11:00", "22:50", "23:30", "9am"}
ValueError == -1
fromisoformat(str) ==
    CASE str = "09:10" -> 9 * 60 + 10
      [] str = "09:40" -> 9 * 60 + 40
      [] str = "11:00" -> 11 * 60
      [] str = "22:50" -> 22 * 60 + 50
      [] str = "23:30" -> 23 * 60 + 30
      [] OTHER -> ValueError

\* place_type is a free string; what matters is which outdoor tags occur in
\* it as substrings (ILIKE '%tag%').
PlaceTypes == {"restaurant", "park", "park,zoo,natural_feature,tourist_attraction,hiking"}
TagsIn(place_type) ==
    CASE place_type = "park" -> {"park"}
      [] place_type = "park,zoo,natural_feature,tourist_attraction,hiking" -> outdoor_types
      [] OTHER -> {}

NoItem == [exists |-> FALSE]
ItemRow(itin, place, ptype, d, t, sent) ==
    [exists |-> TRUE, itinerary_id |-> itin, place_id |-> place, place_type |-> ptype,
     scheduled_date |-> d, scheduled_time |-> t, notification_sent |-> sent]

VARIABLES
    now,                 \* the wall clock (minutes)
    api_key,             \* GOOGLE_MAPS_API_KEY is set
    fcm_token,           \* users.fcm_token
    allow,               \* users.allow_smart_alerts / allow_opportunity_alerts / allow_real_time_tips
    items,               \* schedule_items, by id
    sent_opportunities,  \* sent_opportunities rows (a bag: the table itself keeps no row apart)
    notifications,       \* notifications rows (a bag)
    pushes,              \* every message handed to the push gateway (a bag)
    sch,                 \* per scheduler process: position and locals
    api_calls,           \* request-handler calls made so far
    ticks,               \* sleeps that have elapsed
    response,            \* the last request handler's answer
    itineraries,         \* itineraries, by id
    bookmarks,           \* bookmarks rows
    bookmark_request,    \* the last bookmark request served
    bookmark_calls       \* bookmark requests served so far

\* The tables no scheduler rule and no handler of users or schedule items writes.
side_vars == <<itineraries, bookmarks, bookmark_request, bookmark_calls>>

vars == <<now, api_key, fcm_token, allow, items, sent_opportunities, notifications,
          pushes, sch, api_calls, ticks, response, side_vars>>

db_vars == <<fcm_token, allow, items, sent_opportunities, notifications>>

ItineraryRow(i) == itineraries[i]

\* ------------------------------------------------------------------ helpers
Today(t) == t \div MinutesPerDay
TimeOfDay(t) == t % MinutesPerDay
ItemUser(it) == ItineraryRow(it.itinerary_id).user_id
Live == {i \in ItemIds : items[i].exists}

RECURSIVE SetToSeqs(_)
SetToSeqs(S) ==
    IF S = {} THEN {<<>>}
    ELSE UNION {{<<x>> \o q : q \in SetToSeqs(S \ {x})} : x \in S}

\* The locals of a scheduler process that is between cycles.
\* cycle counts the cycles started; invoked, raised and error are the rules the
\* current cycle has called, the rule that raised in it and what it raised;
\* prev_raised is raised as the cycle before left it; cycle_pushes is the bag
\* of messages the cycle in progress has handed to the push gateway.
NoSearch == [kind |-> "none", results |-> <<>>]
Idle == [pc |-> "sleeping", wake_at |-> 0, now |-> 0, queue |-> <<>>, cur |-> None,
         geo |-> None, travel |-> 0, last_push |-> None, cycle |-> 0, invoked |-> {},
         raised |-> None, error |-> None, prev_raised |-> None, cycle_pushes |-> EmptyBag,
         search |-> NoSearch]

\* geo, travel, last_push and search hold the reply the step before worked on.
Locals(s) == [sch[s] EXCEPT !.geo = None, !.travel = 0, !.last_push = None,
                            !.search = NoSearch]

Set(s, r) == sch' = [sch EXCEPT ![s] = r]

\* (a loop without the try: the exception ends the process)
Uncaught(base, rule, error) ==
    [base EXCEPT !.pc = "exited", !.queue = <<>>, !.cur = None, !.raised = rule,
                 !.error = error, !.cycle_pushes = EmptyBag]

\* An exception leaves the rule; the except clause of main_scheduler_loop logs
\* it, and the loop goes to sleep.
Handler(base, rule, error) ==
    [base EXCEPT !.pc = "sleeping", !.wake_at = now + SleepMinutes, !.queue = <<>>,
                 !.cur = None, !.raised = rule, !.error = error, !.cycle_pushes = EmptyBag]

Raise(s, rule, error) == Set(s, Handler(Locals(s), rule, error))

\* ORM objects as the rule's session loaded them: an item with its itinerary's user.
Loaded(i) ==
    [id |-> i, place_id |-> items[i].place_id, scheduled_date |-> items[i].scheduled_date,
     scheduled_time |-> items[i].scheduled_time, itinerary_id |-> items[i].itinerary_id,
     user_id |-> ItemUser(items[i]), fcm_token |-> fcm_token[ItemUser(items[i])]]

\* ------------------------------------------------------------------ upstream
\* The ways the directions call can end: no reply, a non-2xx reply, a 2xx reply
\* whose status is not OK, or OK with a duration in seconds.
TravelReplies ==
    {[kind |-> k, value |-> 0] : k \in {"request_error", "http_error", "status_not_ok"}}
    \cup {[kind |-> "OK", value |-> v] : v \in {120, 4200}}

\* (a variant that has no default to fall back on: the failed lookup yields 0)
get_travel_time_seconds_no_fallback(reply) ==
    IF api_key /\ reply.kind = "OK" THEN reply.value ELSE 0

GeoOutcome(reply) == IF ~api_key THEN "unconfigured" ELSE reply.kind

get_travel_time_seconds(reply) ==
    IF ~api_key THEN DefaultTravelSeconds
    ELSE IF reply.kind = "OK" THEN reply.value
    ELSE DefaultTravelSeconds

\* send_expo_push_notification: the ways the POST can end: a 2xx reply with a
\* JSON body, a 2xx reply whose body is not JSON, a non-2xx reply, no reply.
PushReplies == {"ok", "ok_not_json", "http_status_error", "request_error"}

\* What send_expo_push_notification does with the reply: "return" or "raise".
\* response.json(), called for the success message, raises json.JSONDecodeError
\* on a body that is not JSON; neither except clause takes it.
send_expo_push_notification(reply) ==
    CASE reply = "ok" -> "return"
      [] reply = "ok_not_json" -> "raise"
      [] reply = "http_status_error" -> "return"   \* except httpx.HTTPStatusError
      [] reply = "request_error" -> "return"       \* except httpx.RequestError

Push(rule, to, user, item, place) ==
    [rule |-> rule, to |-> to, user_id |-> user, item_id |-> item, place_id |-> place]

\* ---------------------------------------------------------------------- Init
\* The state when a scheduler process starts at clock value start: two users on
\* a trip, user 1 with an outdoor item at t1 today, user 2 with a restaurant at t2.
\* The API server works on up to two bookmark requests at a time; a request
\* that awaits the database lets the other run.
Workers == {1, 2}
NoRequest == [pc |-> "idle", op |-> None, user_id |-> 0, place_id |-> None, id |-> 0,
              status |-> 0]

InitWith(start, t1, t2, third, type1) ==
    /\ now = start
    /\ api_key \in BOOLEAN
    /\ fcm_token = [u \in Users |-> IF u = 1 THEN "t1" ELSE "t2"]
    /\ allow = [u \in Users |-> [f \in Flags |-> TRUE]]
    /\ items = [i \in ItemIds |->
                  CASE i = 1 -> ItemRow(1, "pA", type1, 0, t1, FALSE)
                    [] i = 2 -> ItemRow(2, "pB", "restaurant", 0, t2, FALSE)
                    [] OTHER -> NoItem]
    /\ sent_opportunities = EmptyBag
    /\ notifications = EmptyBag
    /\ pushes = EmptyBag
    /\ sch = [s \in Schedulers |-> IF s = 1 THEN [Idle EXCEPT !.pc = "cycle_start"]
                                           ELSE [Idle EXCEPT !.pc = "off"]]
    /\ api_calls = 0
    /\ ticks = 0
    /\ response = [op |-> None, status |-> 0]
    /\ itineraries = [i \in Itineraries |->
                        CASE i = 1 -> Itinerary(1, 0, 1)
                          [] i = 2 -> Itinerary(2, 0, 0)
                          [] OTHER -> third]
    /\ bookmarks = {}
    /\ bookmark_request = [k \in Workers |-> NoRequest]
    /\ bookmark_calls = 0

InitAt(start, t1, t2) ==
    InitWith(start, t1, t2, NoItinerary, "park,zoo,natural_feature,tourist_attraction,hiking")

\* The scheduler is started at 09:00 with items at 09:40 and 09:10.
Init == InitAt(9 * 60, "09:40", "09:10")

\* ------------------------------------------------------------ scheduler loop
\* while True: a new cycle starts when the process starts and after each sleep.
CycleStart(s) ==
    /\ sch[s].pc = "cycle_start" \/ (sch[s].pc = "sleeping" /\ now >= sch[s].wake_at)
    /\ Set(s, [Locals(s) EXCEPT !.pc = "smart_start", !.cycle = @ + 1, !.invoked = {},
                               !.raised = None, !.error = None, !.prev_raised = sch[s].raised])
    /\ UNCHANGED <<now, api_key, side_vars, db_vars, pushes, api_calls, ticks, response>>

\* asyncio.sleep(900) elapsing: the clock moves on while every scheduler sleeps.
Tick ==
    /\ ticks < MaxCycles
    /\ \A s \in Schedulers : sch[s].pc \in {"sleeping", "off"}
    /\ \E s \in Schedulers : sch[s].pc = "sleeping" /\ now < sch[s].wake_at
    /\ now' = now + SleepMinutes
    /\ ticks' = ticks + 1
    /\ UNCHANGED <<api_key, side_vars, db_vars, pushes, sch, api_calls, response>>

\* --------------------------------------------------- Smart Departure rule
\* now.time() <= item_time <= (now + timedelta(minutes=90)).time()
InWindow(t, item_time) ==
    TimeOfDay(t) <= item_time /\ item_time <= TimeOfDay(t + LookAheadMinutes)

\* The for loop up to the next candidate it awaits a travel time for.
RECURSIVE SmartScan(_, _)
SmartScan(q, t) ==
    IF q = <<>> THEN [kind |-> "done", rest |-> <<>>]
    ELSE LET item_time == fromisoformat(Head(q).scheduled_time) IN
         IF item_time = ValueError THEN [kind |-> "raise", rest |-> <<>>]
         ELSE IF InWindow(t, item_time) THEN [kind |-> "found", rest |-> q]
         ELSE SmartScan(Tail(q), t)

SmartContinue(s, base, q) ==
    LET r == SmartScan(q, base.now) IN
    CASE r.kind = "raise" ->
           Set(s, Handler(base, "smart", "ValueError"))
      [] r.kind = "found" ->
           Set(s, [base EXCEPT !.pc = "smart_travel", !.cur = Head(r.rest),
                               !.queue = Tail(r.rest)])
      [] OTHER ->
           Set(s, [base EXCEPT !.pc = "opp_start", !.queue = <<>>, !.cur = None])

\* The WHERE clause of the rule's query.
SmartQuery(t) ==
    {i \in Live : /\ items[i].scheduled_date = Today(t)
                  /\ items[i].notification_sent = FALSE
                  /\ fcm_token[ItemUser(items[i])] # None
                  /\ allow[ItemUser(items[i])]["allow_smart_alerts"] = TRUE}

\* check_and_send_smart_alerts from its start to its first travel-time lookup.
SmartStart(s) ==
    /\ sch[s].pc = "smart_start"
    /\ \E order \in SetToSeqs(SmartQuery(now)) :
         SmartContinue(s, [Locals(s) EXCEPT !.now = now, !.invoked = @ \cup {"smart"}],
                       [k \in 1..Len(order) |-> Loaded(order[k])])
    /\ UNCHANGED <<now, api_key, side_vars, db_vars, pushes, api_calls, ticks, response>>

notification_time(item, travel_time_sec) ==
    item.scheduled_date * MinutesPerDay + fromisoformat(item.scheduled_time)
        - (travel_time_sec \div 60 + BufferMinutes)

\* The travel time arrives; the push is handed to the gateway if it is time.
SmartTravel(s) ==
    /\ sch[s].pc = "smart_travel"
    /\ \E reply \in TravelReplies :
         LET travel_time_sec == get_travel_time_seconds(reply)
             item == sch[s].cur
         IN  IF sch[s].now >= notification_time(item, travel_time_sec)
             THEN LET p == Push("smart", item.fcm_token, item.user_id, item.id, item.place_id)
                  IN  /\ pushes' = pushes (+) SetToBag({p})
                      /\ Set(s, [Locals(s) EXCEPT !.pc = "smart_push",
                                               !.geo = GeoOutcome(reply),
                                               !.travel = travel_time_sec,
                                               !.cycle_pushes = @ (+) SetToBag({p})])
             ELSE /\ SmartContinue(s, [Locals(s) EXCEPT !.geo = GeoOutcome(reply),
                                                     !.travel = travel_time_sec], sch[s].queue)
                  /\ UNCHANGED pushes
    /\ UNCHANGED <<now, api_key, side_vars, db_vars, api_calls, ticks, response>>

\* item.notification_sent = True; await db.commit()
MarkSent(i) == [items EXCEPT ![i].notification_sent = TRUE]

\* The gateway has answered: mark the item, commit, go on with the loop.
SmartPushDone(s) ==
    /\ sch[s].pc = "smart_push"
    /\ \E reply \in PushReplies :
         IF send_expo_push_notification(reply) = "raise"
         THEN /\ Raise(s, "smart", "JSONDecodeError")
              /\ UNCHANGED items
         ELSE /\ items' = MarkSent(sch[s].cur.id)
              /\ SmartContinue(s, [Locals(s) EXCEPT !.last_push = reply], sch[s].queue)
    /\ UNCHANGED <<now, api_key, side_vars, fcm_token, allow, sent_opportunities, notifications,
                   pushes, api_calls, ticks, response>>

\* ------------------------------------------------------- Opportunity rule
\* One entry of a search result: a dict; keys are the keys it holds.
Place(id, rating) ==
    [keys |-> {"place_id", "rating", "name"}, place_id |-> id, rating |-> rating]
Without(p, key) == [p EXCEPT !.keys = @ \ {key}]

\* The ways a places text search can end: no reply (httpx raises), a non-200
\* reply, or 200 with a list of results.
SearchReplies ==
    {[kind |-> "request_error", results |-> <<>>], [kind |-> "non200", results |-> <<>>]}
    \cup {[kind |-> "200", results |-> r] :
            r \in {<<>>,
                   <<Place("pC", 46), Place("pA", 50), Place("pB", 48)>>,
                   <<Place("pC", 44), Without(Place("pB", 0), "rating")>>,
                   <<Without(Place("pC", 49), "place_id")>>}}

\* _get_place_coordinates: a location, or None (no key, no reply, status not OK).
CoordReplies == {"location", "failed"}
_get_place_coordinates(reply) ==
    IF ~api_key THEN None ELSE IF reply = "location" THEN "location" ELSE None

\* The rule's query: users that opted in, hold a token and have an itinerary
\* whose date range holds today.
OppQuery(today) ==
    {u \in Users : /\ allow[u]["allow_opportunity_alerts"] = TRUE
                   /\ fcm_token[u] # None
                   /\ \E i \in Itineraries : /\ ItineraryRow(i).exists
                                             /\ ItineraryRow(i).user_id = u
                                             /\ ItineraryRow(i).start_date <= today
                                             /\ ItineraryRow(i).end_date >= today}

\* Unicode code points of the strings that are compared as strings.
Chars(str) ==
    CASE str = "09:10" -> <<48, 57, 58, 49, 48>>
      [] str = "09:40" -> <<48, 57, 58, 52, 48>>
      [] str = "11:00" -> <<49, 49, 58, 48, 48>>
      [] str = "22:50" -> <<50, 50, 58, 53, 48>>
      [] str = "23:30" -> <<50, 51, 58, 51, 48>>
      [] str = "9am" -> <<57, 97, 109>>

RECURSIVE LexLE(_, _)
LexLE(a, b) ==
    IF a = <<>> THEN TRUE
    ELSE IF b = <<>> THEN FALSE
    ELSE IF Head(a) # Head(b) THEN Head(a) < Head(b)
    ELSE LexLE(Tail(a), Tail(b))

\* ORDER BY scheduled_time LIMIT 1 over the user's items of today.
ItemsToday(u, today) ==
    {i \in Live : ItemUser(items[i]) = u /\ items[i].scheduled_date = today}
FirstItemToday(u, today) ==
    CHOOSE i \in ItemsToday(u, today) :
        \A j \in ItemsToday(u, today) :
            LexLE(Chars(items[i].scheduled_time), Chars(items[j].scheduled_time))

\* The for loop up to the next user it awaits coordinates for.
RECURSIVE OppScan(_, _)
OppScan(q, today) ==
    IF q = <<>> THEN [kind |-> "done", rest |-> <<>>]
    ELSE IF ItemsToday(Head(q).user_id, today) = {} THEN OppScan(Tail(q), today)
    ELSE [kind |-> "found", rest |-> q]

OppContinue(s, base, q) ==
    LET r == OppScan(q, Today(base.now)) IN
    IF r.kind = "found"
    THEN Set(s, [base EXCEPT !.pc = "opp_coords", !.queue = Tail(r.rest),
                   !.cur = [user_id |-> Head(r.rest).user_id,
                            fcm_token |-> Head(r.rest).fcm_token,
                            place_id |-> items[FirstItemToday(Head(r.rest).user_id,
                                                              Today(base.now))].place_id]])
    ELSE Set(s, [base EXCEPT !.pc = "tips_start", !.queue = <<>>, !.cur = None])

\* (the join without .distinct(): one row per matching itinerary of a user)
users_on_trip_per_itinerary(today) ==
    LET pairs == {ui \in Users \X Itineraries :
                    /\ ui[1] \in OppQuery(today)
                    /\ ItineraryRow(ui[2]).exists
                    /\ ItineraryRow(ui[2]).user_id = ui[1]
                    /\ ItineraryRow(ui[2]).start_date <= today
                    /\ ItineraryRow(ui[2]).end_date >= today}
    IN  {[k \in 1..Len(q) |-> q[k][1]] : q \in SetToSeqs(pairs)}

\* users_on_trip = result.scalars().all(): the users of the .distinct()
\* subquery, each once, in the order the database returns them.
users_on_trip(today) == SetToSeqs(OppQuery(today))

\* check_for_opportunities from its start to its first coordinates lookup.
OppStart(s) ==
    /\ sch[s].pc = "opp_start"
    /\ \E order \in users_on_trip(Today(now)) :
         OppContinue(s, [Locals(s) EXCEPT !.now = now, !.invoked = @ \cup {"opp"}],
                     [k \in 1..Len(order) |->
                        [user_id |-> order[k], fcm_token |-> fcm_token[order[k]]]])
    /\ UNCHANGED <<now, api_key, side_vars, db_vars, pushes, api_calls, ticks, response>>

\* The coordinates arrive (or not); the text search is issued.
OppCoords(s) ==
    /\ sch[s].pc = "opp_coords"
    /\ \E reply \in CoordReplies :
         IF _get_place_coordinates(reply) = None
         THEN OppContinue(s, Locals(s), sch[s].queue)
         ELSE Set(s, [Locals(s) EXCEPT !.pc = "opp_search"])
    /\ UNCHANGED <<now, api_key, side_vars, db_vars, pushes, api_calls, ticks, response>>

\* p.get('rating', 0)
Rating(p) == IF "rating" \in p.keys THEN p.rating ELSE 0

\* (the places in the order the search returned them)
Unsorted(places) == places

\* sorted(places, key=rating, reverse=True): stable, highest rating first.
RECURSIVE InsertByRating(_, _)
InsertByRating(p, sorted) ==
    IF sorted = <<>> THEN <<p>>
    ELSE IF Rating(Head(sorted)) >= Rating(p)
         THEN <<Head(sorted)>> \o InsertByRating(p, Tail(sorted))
         ELSE <<p>> \o sorted
RECURSIVE SortByRating(_)
SortByRating(places) ==
    IF places = <<>> THEN <<>>
    ELSE InsertByRating(places[Len(places)], SortByRating(SubSeq(places, 1, Len(places) - 1)))

\* (a variant that forgets the user's planned places)
seen_place_ids_sent_only(u) ==
    {row.place_id : row \in {r \in BagToSet(sent_opportunities) : r.user_id = u}}

\* seen_place_ids: what was sent to the user before, and what the user has planned.
seen_place_ids(u) ==
    {row.place_id : row \in {r \in BagToSet(sent_opportunities) : r.user_id = u}}
    \cup {items[i].place_id : i \in {j \in Live : ItemUser(items[j]) = u}}

\* next(p for p in sorted if p['place_id'] not in seen and rating >= 4.5, None)
RECURSIVE FirstQualifying(_, _)
FirstQualifying(sorted, seen) ==
    IF sorted = <<>> THEN [kind |-> "none", place_id |-> None]
    ELSE IF "place_id" \notin Head(sorted).keys THEN [kind |-> "raise", place_id |-> None]
    ELSE IF Head(sorted).place_id \notin seen /\ Rating(Head(sorted)) >= MinRating
         THEN [kind |-> IF "name" \in Head(sorted).keys THEN "found" ELSE "raise",
               place_id |-> Head(sorted).place_id]
    ELSE FirstQualifying(Tail(sorted), seen)

best_opportunity(places, u) == FirstQualifying(SortByRating(places), seen_place_ids(u))

\* The search result arrives; the best place, if any, is pushed.
OppSearch(s) ==
    /\ sch[s].pc = "opp_search"
    /\ \E reply \in SearchReplies :
         CASE reply.kind = "request_error" ->
                /\ Raise(s, "opp", "RequestError")
                /\ UNCHANGED pushes
           [] reply.kind = "non200" ->
                /\ OppContinue(s, Locals(s), sch[s].queue)
                /\ UNCHANGED pushes
           [] OTHER ->
                LET best == best_opportunity(reply.results, sch[s].cur.user_id) IN
                CASE best.kind = "raise" ->
                       /\ Raise(s, "opp", "KeyError")
                       /\ UNCHANGED pushes
                  [] best.kind = "found" ->
                       LET p == Push("opp", sch[s].cur.fcm_token, sch[s].cur.user_id, 0,
                                     best.place_id)
                       IN  /\ pushes' = pushes (+) SetToBag({p})
                           /\ Set(s, [Locals(s) EXCEPT !.pc = "opp_push",
                                                    !.cur.place_id = best.place_id,
                                                    !.cycle_pushes = @ (+) SetToBag({p}),
                                                    !.search = reply])
                  [] OTHER ->
                       /\ OppContinue(s, [Locals(s) EXCEPT !.search = reply], sch[s].queue)
                       /\ UNCHANGED pushes
    /\ UNCHANGED <<now, api_key, side_vars, db_vars, api_calls, ticks, response>>

\* (a table without the constraint)
NoConstraint(rows, row) == FALSE

\* The table's UniqueConstraint('user_id', 'place_id'): the insert of a row whose
\* pair is present fails with an integrity error.
Violates_user_opportunity_uc(rows, row) ==
    \E r \in BagToSet(rows) : r.user_id = row.user_id /\ r.place_id = row.place_id

\* (an insert that keeps only the newest row)
db_add_replacing(table, row) == SetToBag({row})

\* db.add(row) followed by the commit: one more row in the table.
db_add(table, row) == table (+) SetToBag({row})

Notification(u, title, subject) == [user_id |-> u, title |-> title, subject |-> subject]

\* (a row written for the first user of the table, whoever got the alert)
SentOpportunity_first_user(u, place) == [user_id |-> 1, place_id |-> place]

SentOpportunity(u, place) == [user_id |-> u, place_id |-> place]

\* (each row committed by itself: the Notification is in before the
\* SentOpportunity insert is tried)
add_all_autocommit(u, place) ==
    [error |-> IF Violates_user_opportunity_uc(sent_opportunities, SentOpportunity(u, place))
               THEN "IntegrityError" ELSE None,
     notifications |-> db_add(notifications, Notification(u, "Opportunity Nearby!", place)),
     sent_opportunities |->
        IF Violates_user_opportunity_uc(sent_opportunities, SentOpportunity(u, place))
        THEN sent_opportunities
        ELSE db_add(sent_opportunities, SentOpportunity(u, place))]

\* db.add_all([Notification(...), SentOpportunity(...)]); await db.commit():
\* one transaction, which fails as a whole on the integrity error.
add_all_commit(u, place) ==
    IF Violates_user_opportunity_uc(sent_opportunities, SentOpportunity(u, place))
    THEN [error |-> "IntegrityError", notifications |-> notifications,
          sent_opportunities |-> sent_opportunities]
    ELSE [error |-> None,
          notifications |-> db_add(notifications,
                                   Notification(u, "Opportunity Nearby!", place)),
          sent_opportunities |-> db_add(sent_opportunities, SentOpportunity(u, place))]

\* The gateway has answered: db.add_all([Notification, SentOpportunity]); commit.
OppPushDone(s) ==
    /\ sch[s].pc = "opp_push"
    /\ \E reply \in PushReplies :
         LET tx == add_all_commit(sch[s].cur.user_id, sch[s].cur.place_id) IN
         IF send_expo_push_notification(reply) = "raise"
         THEN /\ Raise(s, "opp", "JSONDecodeError")
              /\ UNCHANGED <<sent_opportunities, notifications>>
         ELSE /\ notifications' = tx.notifications
              /\ sent_opportunities' = tx.sent_opportunities
              /\ IF tx.error # None
                 THEN Raise(s, "opp", tx.error)
                 ELSE OppContinue(s, [Locals(s) EXCEPT !.last_push = reply], sch[s].queue)
    /\ UNCHANGED <<now, api_key, side_vars, fcm_token, allow, items, pushes, api_calls, ticks, response>>

\* -------------------------------------------------------- Weather Tip rule
\* strftime('%H:%M') of a clock value, as code points.
strftime(t) ==
    LET hh == TimeOfDay(t) \div 60
        mm == TimeOfDay(t) % 60
    IN  <<48 + (hh \div 10), 48 + (hh % 10), 58, 48 + (mm \div 10), 48 + (mm % 10)>>

\* and_(*[place_type.ilike('%ot%') for ot in outdoor_types])
OutdoorFilter(place_type) == \A ot \in outdoor_types : ot \in TagsIn(place_type)

\* The WHERE clause of the rule's query.
TipsQuery(t) ==
    {i \in Live : /\ allow[ItemUser(items[i])]["allow_real_time_tips"] = TRUE
                  /\ fcm_token[ItemUser(items[i])] # None
                  /\ items[i].scheduled_date = Today(t)
                  /\ LexLE(strftime(t), Chars(items[i].scheduled_time))
                  /\ LexLE(Chars(items[i].scheduled_time), strftime(t + TipsWindowMinutes))
                  /\ OutdoorFilter(items[i].place_type)}

\* The ways the hourly forecast call can end: None (no key, no reply, non-2xx),
\* or the decoded body.  An entry is a dict with dateTime (minutes) and whether
\* its description holds 'rain'.
Hour(dt, rain) == [keys |-> {"dateTime", "description"}, dateTime |-> dt, rain |-> rain]
ForecastReplies(t) ==
    {[kind |-> "failed", hourlyForecasts |-> <<>>]}
    \cup {[kind |-> "body", hourlyForecasts |-> f] :
            f \in {<<>>,
                   <<Hour(t + 60, TRUE)>>,
                   <<Hour(t + 60, FALSE), Hour(t + 600, TRUE)>>,
                   <<Without(Hour(t, TRUE), "dateTime")>>}}
_get_google_weather_forecast(reply) ==
    IF ~api_key \/ reply.kind = "failed" THEN None ELSE "body"

Abs(x) == IF x < 0 THEN -x ELSE x

\* any('rain' in description for hf in forecasts if abs(hf.dateTime - item_dt) < 7200)
RECURSIVE rain_imminent(_, _)
rain_imminent(forecasts, item_dt) ==
    IF forecasts = <<>> THEN "no"
    ELSE IF "dateTime" \notin Head(forecasts).keys THEN "raise"
    ELSE IF Abs(Head(forecasts).dateTime - item_dt) * 60 < RainWindowSeconds
            /\ Head(forecasts).rain
         THEN "yes"
    ELSE rain_imminent(Tail(forecasts), item_dt)

\* The for loop: the next item, whose coordinates are looked up first.
TipsContinue(s, base, q) ==
    IF q # <<>>
    THEN Set(s, [base EXCEPT !.pc = "tips_coords", !.cur = Head(q), !.queue = Tail(q)])
    ELSE Set(s, [base EXCEPT !.pc = "sleeping", !.wake_at = now + SleepMinutes,
                             !.queue = <<>>, !.cur = None, !.cycle_pushes = EmptyBag])

\* check_for_real_time_tips from its start to its first coordinates lookup.
TipsStart(s) ==
    /\ sch[s].pc = "tips_start"
    /\ \E order \in SetToSeqs(TipsQuery(now)) :
         TipsContinue(s, [Locals(s) EXCEPT !.now = now, !.invoked = @ \cup {"tips"}],
                      [k \in 1..Len(order) |-> Loaded(order[k])])
    /\ UNCHANGED <<now, api_key, side_vars, db_vars, pushes, api_calls, ticks, response>>

TipsCoords(s) ==
    /\ sch[s].pc = "tips_coords"
    /\ \E reply \in CoordReplies :
         IF _get_place_coordinates(reply) = None
         THEN TipsContinue(s, Locals(s), sch[s].queue)
         ELSE Set(s, [Locals(s) EXCEPT !.pc = "tips_forecast"])
    /\ UNCHANGED <<now, api_key, side_vars, db_vars, pushes, api_calls, ticks, response>>

\* The forecast arrives; with rain near the visit the indoor search is issued.
TipsForecast(s) ==
    /\ sch[s].pc = "tips_forecast"
    /\ \E reply \in ForecastReplies(sch[s].now) :
         IF _get_google_weather_forecast(reply) = None \/ reply.hourlyForecasts = <<>>
         THEN TipsContinue(s, Locals(s), sch[s].queue)
         ELSE LET item_time == fromisoformat(sch[s].cur.scheduled_time)
                  item_dt == Today(sch[s].now) * MinutesPerDay + item_time
                  rain == IF item_time = ValueError THEN "raise"
                          ELSE rain_imminent(reply.hourlyForecasts, item_dt)
              IN  CASE rain = "raise" ->
                         Raise(s, "tips", IF item_time = ValueError THEN "ValueError"
                                          ELSE "KeyError")
                    [] rain = "yes" -> Set(s, [Locals(s) EXCEPT !.pc = "tips_search"])
                    [] OTHER -> TipsContinue(s, Locals(s), sch[s].queue)
    /\ UNCHANGED <<now, api_key, side_vars, db_vars, pushes, api_calls, ticks, response>>

\* The indoor search arrives; its first result is pushed as the alternative.
TipsSearch(s) ==
    /\ sch[s].pc = "tips_search"
    /\ \E reply \in SearchReplies :
         CASE reply.kind = "request_error" ->
                /\ Raise(s, "tips", "RequestError")
                /\ UNCHANGED pushes
           [] reply.kind = "non200" \/ reply.results = <<>> ->
                /\ TipsContinue(s, Locals(s), sch[s].queue)
                /\ UNCHANGED pushes
           [] OTHER ->
                LET alt == reply.results[1] IN
                IF {"name", "place_id"} \subseteq alt.keys
                THEN LET p == Push("tips", sch[s].cur.fcm_token, sch[s].cur.user_id,
                                   sch[s].cur.id, alt.place_id)
                     IN  /\ pushes' = pushes (+) SetToBag({p})
                         /\ Set(s, [Locals(s) EXCEPT !.pc = "tips_push",
                                                  !.cur.place_id = alt.place_id,
                                                  !.cycle_pushes = @ (+) SetToBag({p}),
                                                  !.search = reply])
                ELSE /\ Raise(s, "tips", "KeyError")
                     /\ UNCHANGED pushes
    /\ UNCHANGED <<now, api_key, side_vars, db_vars, api_calls, ticks, response>>

\* The gateway has answered: db.add(Notification); commit.
TipsPushDone(s) ==
    /\ sch[s].pc = "tips_push"
    /\ \E reply \in PushReplies :
         IF send_expo_push_notification(reply) = "raise"
         THEN /\ Raise(s, "tips", "JSONDecodeError")
              /\ UNCHANGED notifications
         ELSE /\ notifications' = db_add(notifications,
                     Notification(sch[s].cur.user_id, "Heads Up: Rain Expected!",
                                  sch[s].cur.place_id))
              /\ TipsContinue(s, [Locals(s) EXCEPT !.last_push = reply], sch[s].queue)
    /\ UNCHANGED <<now, api_key, side_vars, fcm_token, allow, items, sent_opportunities, pushes,
                   api_calls, ticks, response>>

\* -------------------------------------------------------- database failure
\* The steps that begin with a database operation: a rule's query, the commit
\* after a push, the Opportunity rule's reads of the exclusion set.
DbPcs == {"smart_start", "smart_push", "opp_start", "opp_search", "opp_push",
          "tips_start", "tips_push"}
RuleOf(pc) ==
    CASE pc \in {"smart_start", "smart_push"} -> "smart"
      [] pc \in {"opp_start", "opp_search", "opp_push"} -> "opp"
      [] OTHER -> "tips"

\* The database operation the rule is at raises (connection lost, statement
\* failed): nothing of the transaction is stored, the session is closed by
\* get_db_session, and the exception leaves the rule.
DbFails(s) ==
    /\ sch[s].pc \in DbPcs
    /\ Set(s, Handler([Locals(s) EXCEPT !.invoked = @ \cup {RuleOf(sch[s].pc)}],
                      RuleOf(sch[s].pc), "OperationalError"))
    /\ UNCHANGED <<now, api_key, side_vars, db_vars, pushes, api_calls, ticks, response>>

\* --------------------------------------------------------- request handlers
Respond(op, status) ==
    /\ response' = [op |-> op, status |-> status]
    /\ api_calls' = api_calls + 1

\* PUT /me/settings with one of the three fields given.
update_user_settings(u, f, v) ==
    /\ api_calls < MaxApiCalls
    /\ allow' = [allow EXCEPT ![u][f] = v]
    /\ Respond("update_user_settings", 200)
    /\ UNCHANGED <<now, api_key, side_vars, fcm_token, items, sent_opportunities, notifications,
                   pushes, sch, ticks>>

\* POST /fcm-token without the clearing UPDATE.
update_fcm_token_keeping_holders(u, t) ==
    /\ api_calls < MaxApiCalls
    /\ fcm_token' = [fcm_token EXCEPT ![u] = t]
    /\ Respond("update_fcm_token", 200)
    /\ UNCHANGED <<now, api_key, side_vars, allow, items, sent_opportunities, notifications,
                   pushes, sch, ticks>>

\* POST /fcm-token: clear the token wherever it is held, then give it to the caller.
update_fcm_token(u, t) ==
    /\ api_calls < MaxApiCalls
    /\ fcm_token' = [x \in Users |-> IF x = u THEN t
                                     ELSE IF fcm_token[x] = t THEN None ELSE fcm_token[x]]
    /\ Respond("update_fcm_token", 200)
    /\ UNCHANGED <<now, api_key, side_vars, allow, items, sent_opportunities, notifications,
                   pushes, sch, ticks>>

\* The requests the model sends to the two itinerary handlers.
AddRequests ==
    [itinerary_id : {1}, user_id : Users, place_id : {"pB"},
     place_type : {"park,zoo,natural_feature,tourist_attraction,hiking"},
     scheduled_date : {0, 2}, scheduled_time : {"09:10"}]
UpdateRequests ==
    [item_id : {1}, user_id : {1}, scheduled_date : {0, 1, 2}, scheduled_time : {"11:00", "9am"}]
    \cup [item_id : {1, 3}, user_id : {2}, scheduled_date : {0}, scheduled_time : {"11:00"}]

\* POST /{itinerary_id}/items
add_schedule_item_to_itinerary(r) ==
    /\ api_calls < MaxApiCalls
    /\ IF ~ItineraryRow(r.itinerary_id).exists \/ ItineraryRow(r.itinerary_id).user_id # r.user_id
       THEN Respond("add_schedule_item_to_itinerary", 404) /\ UNCHANGED items
       ELSE IF ~(ItineraryRow(r.itinerary_id).start_date <= r.scheduled_date
                 /\ r.scheduled_date <= ItineraryRow(r.itinerary_id).end_date)
       THEN Respond("add_schedule_item_to_itinerary", 400) /\ UNCHANGED items
       ELSE /\ ItemIds \ Live # {}
            /\ LET id == CHOOSE i \in ItemIds \ Live : \A j \in ItemIds \ Live : i <= j IN
               items' = [items EXCEPT ![id] =
                           ItemRow(r.itinerary_id, r.place_id, r.place_type,
                                   r.scheduled_date, r.scheduled_time, FALSE)]
            /\ Respond("add_schedule_item_to_itinerary", 201)
    /\ UNCHANGED <<now, api_key, side_vars, fcm_token, allow, sent_opportunities, notifications,
                   pushes, sch, ticks>>

\* (a handler that also clears the flag of the item it moves)
RescheduledAndReset(row, r) ==
    [row EXCEPT !.scheduled_date = r.scheduled_date, !.scheduled_time = r.scheduled_time,
                !.notification_sent = FALSE]

\* item_to_update.scheduled_date = ...; item_to_update.scheduled_time = ...
Rescheduled(row, r) ==
    [row EXCEPT !.scheduled_date = r.scheduled_date, !.scheduled_time = r.scheduled_time]

\* PUT /items/{item_id}
update_schedule_item(r) ==
    /\ api_calls < MaxApiCalls
    /\ IF r.item_id \notin Live
       THEN Respond("update_schedule_item", 404) /\ UNCHANGED items
       ELSE IF ItemUser(items[r.item_id]) # r.user_id
       THEN Respond("update_schedule_item", 403) /\ UNCHANGED items
       ELSE IF ~(ItineraryRow(items[r.item_id].itinerary_id).start_date <= r.scheduled_date
                 /\ r.scheduled_date <= ItineraryRow(items[r.item_id].itinerary_id).end_date)
       THEN Respond("update_schedule_item", 400) /\ UNCHANGED items
       ELSE /\ items' = [items EXCEPT ![r.item_id] = Rescheduled(@, r)]
            /\ Respond("update_schedule_item", 200)
    /\ UNCHANGED <<now, api_key, side_vars, fcm_token, allow, sent_opportunities, notifications,
                   pushes, sch, ticks>>

\* ---------------------------------------------------------------- bookmarks
BookmarkPlaces == {"pA", "pB"}
Bookmark(id, u, p) == [id |-> id, user_id |-> u, place_id |-> p]

\* (a table without the constraint)
Unconstrained(rows, row) == FALSE

\* UniqueConstraint('user_id', 'place_id', name='_user_place_uc'): the insert of
\* a row whose pair is present fails with an integrity error.
Violates_user_place_uc(rows, row) ==
    \E r \in rows : r.user_id = row.user_id /\ r.place_id = row.place_id

\* stmt_check: the rows of the user for the place.
stmt_check(u, p) == {r \in bookmarks : r.user_id = u /\ r.place_id = p}

\* POST /bookmarks up to its commit: the SELECT, and 409 if it finds a row.
\* The new row's primary key is the serial number of the call.
create_bookmark(k, u, p) ==
    /\ bookmark_calls < MaxBookmarkCalls
    /\ bookmark_request[k].pc # "commit"
    /\ bookmark_calls' = bookmark_calls + 1
    /\ bookmark_request' =
          [bookmark_request EXCEPT ![k] =
             [pc |-> IF stmt_check(u, p) # {} THEN "done" ELSE "commit",
              op |-> "create_bookmark", user_id |-> u, place_id |-> p,
              id |-> bookmark_calls + 1,
              status |-> IF stmt_check(u, p) # {} THEN 409 ELSE 0]]
    /\ UNCHANGED <<now, api_key, db_vars, pushes, sch, api_calls, ticks, response,
                   itineraries, bookmarks>>

\* db.add(db_bookmark); await db.commit(): 201, or the integrity error that no
\* handler catches (500).
create_bookmark_commit(k) ==
    /\ bookmark_request[k].pc = "commit"
    /\ LET req == bookmark_request[k]
           row == Bookmark(req.id, req.user_id, req.place_id)
       IN  IF Violates_user_place_uc(bookmarks, row)
           THEN /\ bookmark_request' = [bookmark_request EXCEPT ![k].pc = "done",
                                                               ![k].status = 500]
                /\ UNCHANGED bookmarks
           ELSE /\ bookmark_request' = [bookmark_request EXCEPT ![k].pc = "done",
                                                               ![k].status = 201]
                /\ bookmarks' = bookmarks \cup {row}
    /\ UNCHANGED <<now, api_key, db_vars, pushes, sch, api_calls, ticks, response,
                   itineraries, bookmark_calls>>

\* DELETE /bookmarks/{bookmark_id}: 404 unless the row is the caller's.
delete_bookmark(k, u, id) ==
    /\ bookmark_calls < MaxBookmarkCalls
    /\ bookmark_request[k].pc # "commit"
    /\ bookmark_calls' = bookmark_calls + 1
    /\ LET bookmark_to_delete == {r \in bookmarks : r.id = id /\ r.user_id = u} IN
       /\ bookmarks' = bookmarks \ bookmark_to_delete
       /\ bookmark_request' =
             [bookmark_request EXCEPT ![k] =
                [pc |-> "done", op |-> "delete_bookmark", user_id |-> u, place_id |-> None,
                 id |-> id, status |-> IF bookmark_to_delete = {} THEN 404 ELSE 204]]
    /\ UNCHANGED <<now, api_key, db_vars, pushes, sch, api_calls, ticks, response,
                   itineraries>>

\* POST /generate.  The request carries the date range; the schedule comes from
\* the language model as a list of dicts (empty when the call or the parse of
\* its answer fails).  scheduled_date is the day strptime makes of the string,
\* or ValueError.
GenerateRequests == [user_id : {1}, start_date : {0}, end_date : {0}]
Generated(place, d, t) ==
    [keys |-> {"place_id", "scheduled_date", "scheduled_time"}, place_id |-> place,
     scheduled_date |-> d, scheduled_time |-> t]
GeneratedReplies ==
    {<<>>,
     <<Generated("pA", 0, "11:00")>>,
     <<Generated("pA", 2, "11:00")>>,
     <<Generated("unknown", 0, "11:00"), Generated("pA", ValueError, "11:00"),
       Without(Generated("pA", 0, "11:00"), "scheduled_time")>>}

\* all_places_map: the places the recommendation search returned.
all_places_map == {"pA"}

\* The for loop over generated_items: the items it appends.
RECURSIVE schedule_items_to_add(_)
schedule_items_to_add(generated) ==
    IF generated = <<>> THEN <<>>
    ELSE LET item == Head(generated)
             rest == schedule_items_to_add(Tail(generated))
         IN  IF "place_id" \notin item.keys \/ item.place_id \notin all_places_map THEN rest
             ELSE IF "scheduled_date" \notin item.keys \/ "scheduled_time" \notin item.keys
                  THEN rest
             ELSE IF item.scheduled_date = ValueError THEN rest
             ELSE <<item>> \o rest

\* Primary keys the tables hand out: the free ids, lowest first.
RECURSIVE Ascending(_)
Ascending(S) ==
    IF S = {} THEN <<>>
    ELSE LET x == CHOOSE y \in S : \A z \in S : y <= z IN <<x>> \o Ascending(S \ {x})

generate_itinerary(r, generated) ==
    /\ api_calls < MaxApiCalls
    /\ LET to_add == schedule_items_to_add(generated)
           free_items == Ascending(ItemIds \ Live)
           free_itins == Ascending({i \in Itineraries : ~itineraries[i].exists})
       IN  IF generated = <<>> \/ to_add = <<>>
           THEN Respond("generate_itinerary", 500) /\ UNCHANGED <<items, itineraries>>
           ELSE /\ Len(to_add) <= Len(free_items)
                /\ free_itins # <<>>
                /\ itineraries' = [itineraries EXCEPT ![free_itins[1]] =
                                      Itinerary(r.user_id, r.start_date, r.end_date)]
                /\ items' = [i \in ItemIds |->
                               IF \E k \in 1..Len(to_add) : free_items[k] = i
                               THEN LET k == CHOOSE j \in 1..Len(to_add) : free_items[j] = i
                                    IN  ItemRow(free_itins[1], to_add[k].place_id, "restaurant",
                                                to_add[k].scheduled_date,
                                                to_add[k].scheduled_time, FALSE)
                               ELSE items[i]]
                /\ Respond("generate_itinerary", 200)
    /\ UNCHANGED <<now, api_key, fcm_token, allow, sent_opportunities, notifications,
                   pushes, sch, ticks, bookmarks, bookmark_request, bookmark_calls>>

\* ------------------------------------------------------------ specification
Scheduler(s) ==
    \/ CycleStart(s)
    \/ SmartStart(s) \/ SmartTravel(s) \/ SmartPushDone(s)
    \/ OppStart(s) \/ OppCoords(s) \/ OppSearch(s) \/ OppPushDone(s)
    \/ TipsStart(s) \/ TipsCoords(s) \/ TipsForecast(s) \/ TipsSearch(s) \/ TipsPushDone(s)

Api ==
    \/ \E u \in Users, f \in Flags, v \in BOOLEAN : update_user_settings(u, f, v)
    \/ \E u \in Users, t \in Tokens : update_fcm_token(u, t)
    \/ \E r \in AddRequests : add_schedule_item_to_itinerary(r)
    \/ \E r \in UpdateRequests : update_schedule_item(r)

\* One scheduler process and the API server.
Next == Scheduler(1) \/ Tick \/ Api

Spec == Init /\ [][Next]_vars

\* The scheduler process on its own: no request reaches the API server.
LoopNext == Scheduler(1) \/ Tick

LoopSpec == Init /\ [][LoopNext]_vars

\* The event loop runs the scheduler task whenever it can go on: every upstream
\* call ends (a reply, an error or a timeout) and every sleep elapses.
FairSpec == LoopSpec /\ WF_vars(Scheduler(1)) /\ WF_vars(Tick)

\* The scheduler process on a day on which every call succeeds: it is started
\* at 09:16 with an API key, items at 11:00 and 09:40 are in the database, every
\* upstream call returns a well-formed success and nothing is raised.
InitDay == InitAt(9 * 60 + 16, "11:00", "09:40") /\ api_key = TRUE

DayTick ==
    /\ ticks < MaxDayCycles
    /\ \A s \in Schedulers : sch[s].pc \in {"sleeping", "off"}
    /\ \E s \in Schedulers : sch[s].pc = "sleeping" /\ now < sch[s].wake_at
    /\ now' = now + SleepMinutes
    /\ ticks' = ticks + 1
    /\ UNCHANGED <<api_key, side_vars, db_vars, pushes, sch, api_calls, response>>

AllCallsSucceed ==
    /\ sch'[1].raised = None
    /\ sch'[1].geo \in {None, "OK"}
    /\ sch'[1].last_push \in {None, "ok"}
    /\ sch[1].pc = "opp_coords" => sch'[1].pc = "opp_search"
    /\ sch[1].pc = "tips_coords" => sch'[1].pc = "tips_forecast"

DayNext ==
    \/ CycleStart(1) /\ AllCallsSucceed
    \/ SmartStart(1) /\ AllCallsSucceed
    \/ SmartTravel(1) /\ AllCallsSucceed
    \/ SmartPushDone(1) /\ AllCallsSucceed
    \/ OppStart(1) /\ AllCallsSucceed
    \/ OppCoords(1) /\ AllCallsSucceed
    \/ OppSearch(1) /\ AllCallsSucceed
    \/ OppPushDone(1) /\ AllCallsSucceed
    \/ TipsStart(1) /\ AllCallsSucceed
    \/ TipsCoords(1) /\ AllCallsSucceed
    \/ TipsForecast(1) /\ AllCallsSucceed
    \/ TipsSearch(1) /\ AllCallsSucceed
    \/ TipsPushDone(1) /\ AllCallsSucceed
    \/ DayTick

DaySpec == InitDay /\ [][DayNext]_vars

\* The scheduler process on its own, started in the morning or at 22:45 with
\* items at 23:30 and 22:50.
InitAnyClock == Init \/ InitAt(22 * 60 + 45, "23:30", "22:50")

ClockSpec == InitAnyClock /\ [][LoopNext]_vars

\* The scheduler process on its own, user 1's item being of a type that names
\* every outdoor tag or of the type "park".
InitAnyType == Init \/ InitWith(9 * 60, "09:40", "09:10", NoItinerary, "park")

OutdoorSpec == InitAnyType /\ [][LoopNext]_vars

\* The scheduler process on its own, against a database whose operations can
\* fail; the event loop is fair to the scheduler task as in FairSpec.
DbFailNext == Scheduler(1) \/ Tick \/ DbFails(1)

DbFailSpec == Init /\ [][DbFailNext]_vars /\ WF_vars(Scheduler(1)) /\ WF_vars(Tick)

\* The scheduler process and the two itinerary handlers that write schedule items.
ItineraryApi ==
    \/ \E r \in AddRequests : add_schedule_item_to_itinerary(r)
    \/ \E r \in UpdateRequests : update_schedule_item(r)

ItineraryNext == Scheduler(1) \/ Tick \/ ItineraryApi

ItinerarySpec == Init /\ [][ItineraryNext]_vars

\* The scheduler process and one of the two handlers.
AddItemNext ==
    Scheduler(1) \/ Tick \/ \E r \in AddRequests : add_schedule_item_to_itinerary(r)

AddItemSpec == Init /\ [][AddItemNext]_vars

UpdateItemNext == Scheduler(1) \/ Tick \/ \E r \in UpdateRequests : update_schedule_item(r)

UpdateItemSpec == Init /\ [][UpdateItemNext]_vars

\* The scheduler process and every handler that creates or moves schedule items.
Generate == \E r \in GenerateRequests, g \in GeneratedReplies : generate_itinerary(r, g)

GenerateNext == Scheduler(1) \/ Tick \/ ItineraryApi \/ Generate

GenerateSpec == Init /\ [][GenerateNext]_vars

\* The scheduler process on its own, user 1 having a second itinerary (made
\* with POST /itineraries, no items yet) whose range holds today.
InitOnTrip ==
    InitWith(9 * 60, "09:40", "09:10", Itinerary(1, 0, 0),
             "park,zoo,natural_feature,tourist_attraction,hiking")

OnTripSpec == InitOnTrip /\ [][LoopNext]_vars

\* The scheduler process and the device-token handler.
TokenApi == \E u \in Users, t \in Tokens : update_fcm_token(u, t)

TokenNext == Scheduler(1) \/ Tick \/ TokenApi

TokenSpec == Init /\ [][TokenNext]_vars

\* The bookmark handlers of the API server.
BookmarkNext ==
    \/ \E k \in Workers, u \in Users, p \in BookmarkPlaces : create_bookmark(k, u, p)
    \/ \E k \in Workers : create_bookmark_commit(k)
    \/ \E k \in Workers, u \in Users, id \in 1..MaxBookmarkCalls : delete_bookmark(k, u, id)

BookmarkSpec == Init /\ [][BookmarkNext]_vars

\* A second scheduler process is started against the same database.
Launch(s) ==
    /\ sch[s].pc = "off"
    /\ Set(s, [sch[s] EXCEPT !.pc = "cycle_start"])
    /\ UNCHANGED <<now, api_key, side_vars, db_vars, pushes, api_calls, ticks, response>>

\* Two scheduler processes, each in its first cycle, against the same database.
NextTwo == (\E s \in Schedulers : Scheduler(s)) \/ Launch(2)

SpecTwo == Init /\ [][NextTwo]_vars

\* ------------------------------------------------------------------ claims
RECURSIVE SumCopies(_, _)
SumCopies(S, B) ==
    IF S = {} THEN 0
    ELSE LET x == CHOOSE y \in S : TRUE IN CopiesIn(x, B) + SumCopies(S \ {x}, B)

\* The number of pushes a rule has sent for an item.
PushesForItem(rule, i) ==
    SumCopies({r \in BagToSet(pushes) : r.rule = rule /\ r.item_id = i}, pushes)

FlagOf(rule) ==
    CASE rule = "smart" -> "allow_smart_alerts"
      [] rule = "opp" -> "allow_opportunity_alerts"
      [] rule = "tips" -> "allow_real_time_tips"

\* C1: over any sequence of cycles of one scheduler, each ScheduleItem gets at
\* most one Smart Departure push.
C1_AtMostOneSmartPush == \A i \in ItemIds : PushesForItem("smart", i) <= 1

\* C2: a push of a category is handed to the gateway only for a user whose
\* opt-in flag of that category is true at that moment.
C2_OptOutRespected ==
    [][\A r \in BagToSet(pushes') :
          CopiesIn(r, pushes') > CopiesIn(r, pushes)
             => allow[r.user_id][FlagOf(r.rule)] = TRUE]_vars

C4_SentOpportunityNeverShrinks ==
    [][\A row \in BagToSet(sent_opportunities) :
          CopiesIn(row, sent_opportunities') >= CopiesIn(row, sent_opportunities)]_vars

\* The second cycle's Opportunity rule is at work on a user whose row of the
\* first cycle is still there, and the table holds rows of both users.
C4_Witness ==
    /\ sch[1].cycle = 2
    /\ sch[1].pc = "opp_search"
    /\ BagIn(SentOpportunity(sch[1].cur.user_id, "pB"), sent_opportunities)
    /\ BagIn(SentOpportunity(2, "pA"), sent_opportunities)

\* C5: the table never holds two rows for one (user, place), two scheduler
\* processes inserting concurrently included.
C5_OneRowPerUserPlace ==
    \A row \in BagToSet(sent_opportunities) : CopiesIn(row, sent_opportunities) = 1

\* The second insert of a pair was attempted and failed with the integrity
\* error; the first one's row is there.
C5_Witness ==
    \E s \in Schedulers :
        /\ sch[s].error = "IntegrityError"
        /\ sent_opportunities # EmptyBag

\* C6: when a cycle is over, a rule that raised in it has not kept the rules
\* after it from being invoked in that cycle.
C6_RaiseDoesNotSkipLaterRules ==
    \A s \in Schedulers :
        (sch[s].pc = "sleeping" /\ sch[s].cycle >= 1)
           => /\ sch[s].raised = "smart" => {"opp", "tips"} \subseteq sch[s].invoked
              /\ sch[s].raised = "opp" => "tips" \in sch[s].invoked

PushPcs == {"smart_push", "opp_push", "tips_push"}
C8_PushNeverRaises ==
    [][\A s \in Schedulers :
          (sch[s].pc \in PushPcs /\ sch'[s] # sch[s])
             => /\ sch'[s].error # "JSONDecodeError"
                /\ sch'[s].last_push \in PushReplies
                /\ sch[s].pc = "smart_push" => items'[sch[s].cur.id].notification_sent
                /\ sch[s].pc = "tips_push" =>
                      \E n \in BagToSet(notifications') :
                          CopiesIn(n, notifications') > CopiesIn(n, notifications)]_vars

\* C9: when the directions call fails (or no key is set) the travel time is
\* 900 s and the candidate is decided with it: pushed when now is at or past
\* scheduled time - 25 minutes, passed over otherwise; the step raises nothing.
C9_GeoFallback ==
    [][\A s \in Schedulers :
          (sch[s].pc = "smart_travel" /\ sch'[s] # sch[s] /\ sch'[s].geo # "OK")
             => LET item == sch[s].cur
                    due == sch[s].now >= item.scheduled_date * MinutesPerDay
                                          + fromisoformat(item.scheduled_time)
                                          - (DefaultTravelSeconds \div 60 + BufferMinutes)
                IN  /\ sch'[s].travel = DefaultTravelSeconds
                    /\ due => /\ sch'[s].pc = "smart_push"
                              /\ CopiesIn(Push("smart", item.fcm_token, item.user_id, item.id,
                                               item.place_id), pushes')
                                 = CopiesIn(Push("smart", item.fcm_token, item.user_id, item.id,
                                                 item.place_id), pushes) + 1
                    /\ ~due => pushes' = pushes /\ sch'[s].pc # "smart_push"
                    /\ sch'[s].raised = None]_vars

\* The directions call failed and the candidate's push is out, decided with 900 s.
C9_Witness ==
    /\ sch[1].geo \in {"request_error", "http_error", "status_not_ok"}
    /\ sch[1].travel = DefaultTravelSeconds
    /\ sch[1].pc = "smart_push"

\* C10: a notification_sent flag that is true stays true through every step.
C10_FlagNeverReset ==
    [][\A i \in ItemIds :
          (items[i].exists /\ items[i].notification_sent)
             => (items'[i].exists /\ items'[i].notification_sent)]_vars

\* Item 1 was pushed and marked, then moved by update_schedule_item (its time
\* is no longer the 09:40 it had), and it is still marked.
C10_Witness ==
    /\ items[1].notification_sent
    /\ items[1].scheduled_time # "09:40"
    /\ response = [op |-> "update_schedule_item", status |-> 200]
    /\ PushesForItem("smart", 1) = 1

\* C11: every stored ScheduleItem has its date inside its itinerary's range
\* after every step, and a request answered 400 stores and changes nothing.
C11_ItemsWithinItinerary ==
    [][/\ \A i \in ItemIds :
            items'[i].exists =>
               /\ itineraries'[items'[i].itinerary_id].start_date <= items'[i].scheduled_date
               /\ items'[i].scheduled_date <= itineraries'[items'[i].itinerary_id].end_date
       /\ (api_calls' # api_calls /\ response'.status = 400)
             => (items' = items /\ itineraries' = itineraries)]_vars

C13_OnePushPerSubjectPerCycle ==
    \A s \in Schedulers :
       LET sent == sch[s].cycle_pushes IN
       /\ \A rule \in {"smart", "tips"}, i \in ItemIds :
             SumCopies({r \in BagToSet(sent) : r.rule = rule /\ r.item_id = i}, sent) <= 1
       /\ \A u \in Users :
             SumCopies({r \in BagToSet(sent) : r.rule = "opp" /\ r.user_id = u}, sent) <= 1

\* User 1, with two itineraries that hold today, has got an Opportunity push
\* in this cycle.
C13_Witness ==
    /\ Cardinality({i \in Itineraries : /\ itineraries[i].exists
                                        /\ itineraries[i].user_id = 1
                                        /\ itineraries[i].start_date <= Today(now)
                                        /\ itineraries[i].end_date >= Today(now)}) >= 2
    /\ \E r \in BagToSet(sch[1].cycle_pushes) : r.rule = "opp" /\ r.user_id = 1

\* C14: a create_bookmark call for a (user, place) pair that is bookmarked when
\* the call is made is answered 409 and stores nothing, and after every step
\* of create_bookmark and delete_bookmark calls a user has at most one bookmark
\* per place.
C14_OneBookmarkPerPlace ==
    [][/\ \A k \in Workers :
            (/\ bookmark_calls' = bookmark_calls + 1
             /\ bookmark_request'[k] # bookmark_request[k]
             /\ bookmark_request'[k].op = "create_bookmark"
             /\ \E r \in bookmarks : /\ r.user_id = bookmark_request'[k].user_id
                                      /\ r.place_id = bookmark_request'[k].place_id)
            => (bookmark_request'[k].status = 409 /\ bookmarks' = bookmarks)
       /\ \A x, y \in bookmarks' :
            (x.user_id = y.user_id /\ x.place_id = y.place_id) => x = y]_vars

\* A create_bookmark call has been answered 409 while the pair's row is stored.
C14_Witness ==
    \E k \in Workers :
       /\ bookmark_request[k].status = 409
       /\ \E r \in bookmarks : /\ r.user_id = bookmark_request[k].user_id
                                /\ r.place_id = bookmark_request[k].place_id

\* C15: the Smart Departure rule takes an un-notified item of today as inside
\* its look-ahead window exactly when now <= scheduled time <= now + 90 minutes,
\* also when now + 90 minutes is after midnight: a run of the rule goes on to
\* a travel-time lookup exactly when its query holds such an item, and the
\* lookup is for such an item.
C15_WindowInclusive ==
    [][\A s \in Schedulers :
          (sch[s].pc = "smart_start" /\ sch'[s].pc # "smart_start")
          => LET inside == {i \in Live :
                              /\ items[i].scheduled_date = Today(now)
                              /\ items[i].notification_sent = FALSE
                              /\ fcm_token[ItemUser(items[i])] # None
                              /\ allow[ItemUser(items[i])]["allow_smart_alerts"]
                              /\ fromisoformat(items[i].scheduled_time) # ValueError
                              /\ now <= items[i].scheduled_date * MinutesPerDay
                                          + fromisoformat(items[i].scheduled_time)
                              /\ items[i].scheduled_date * MinutesPerDay
                                   + fromisoformat(items[i].scheduled_time)
                                     <= now + LookAheadMinutes}
             IN  sch'[s].raised # "smart"
                 => /\ (inside # {}) <=> (sch'[s].pc = "smart_travel")
                    /\ sch'[s].pc = "smart_travel" => sch'[s].cur.id \in inside]_vars

\* C16: a candidate inside the window gets its push and its notification_sent
\* flag in this cycle if and only if now >= scheduled datetime - (travel time in
\* whole minutes + 10 minutes): when the travel time arrives the push goes out
\* exactly in that case, and the step that follows the push sets the flag.
C16_PushAndFlagIffDue ==
    [][\A s \in Schedulers :
          /\ (sch[s].pc = "smart_travel" /\ sch'[s] # sch[s])
               => LET item == sch[s].cur
                      notify_at == item.scheduled_date * MinutesPerDay
                                     + fromisoformat(item.scheduled_time)
                                     - (sch'[s].travel \div 60 + BufferMinutes)
                  IN  (sch[s].now >= notify_at)
                         <=> (/\ sch'[s].pc = "smart_push"
                              /\ pushes' = pushes (+) SetToBag({Push("smart", item.fcm_token,
                                                item.user_id, item.id, item.place_id)}))
          /\ (sch[s].pc = "smart_push" /\ sch'[s] # sch[s])
               => items'[sch[s].cur.id].notification_sent = TRUE]_vars

\* C17: the Notification row and the SentOpportunity row of an Opportunity
\* alert are committed together: in every state the two tables hold the same
\* number of rows for each (user, place) of an alert, both or neither.
C17_BothRowsOrNeither ==
    \A u \in Users, p \in Places :
       CopiesIn([user_id |-> u, title |-> "Opportunity Nearby!", subject |-> p], notifications)
         = CopiesIn([user_id |-> u, place_id |-> p], sent_opportunities)

\* One process has committed both rows of an alert and the other's commit for
\* the same user and place has failed, leaving neither of its rows.
C17_Witness ==
    \E s \in Schedulers, u \in Users, p \in Places :
       /\ sch[s].error = "IntegrityError"
       /\ CopiesIn([user_id |-> u, place_id |-> p], sent_opportunities) = 1
       /\ CopiesIn([user_id |-> u, title |-> "Opportunity Nearby!", subject |-> p],
                   notifications) = 1
       /\ \E r \in BagToSet(pushes) :
             r.rule = "opp" /\ r.user_id = u /\ r.place_id = p /\ CopiesIn(r, pushes) = 2

\* C18: a step of the Opportunity rule leaves every existing SentOpportunity
\* and Notification row as it is, and adds rows only for a user to whom this
\* run of the rule has sent an Opportunity push: a user the run sends nothing
\* to gets no row.
C18_NoPushNoRows ==
    [][\A s \in Schedulers :
          (sch'[s] # sch[s] /\ sch[s].pc \in {"opp_start", "opp_coords", "opp_search", "opp_push"})
          => /\ \A row \in BagToSet(sent_opportunities) :
                   CopiesIn(row, sent_opportunities') = CopiesIn(row, sent_opportunities)
             /\ \A row \in BagToSet(notifications) :
                   CopiesIn(row, notifications') = CopiesIn(row, notifications)
             /\ \A u \in Users :
                   (\A r \in BagToSet(sch[s].cycle_pushes) : ~(r.rule = "opp" /\ r.user_id = u))
                   => /\ \A row \in BagToSet(sent_opportunities') :
                            row.user_id = u => BagIn(row, sent_opportunities)
                      /\ \A row \in BagToSet(notifications') :
                            row.user_id = u => BagIn(row, notifications)]_vars

\* The second cycle's Opportunity rule has run to its end without a push to
\* user 1, whose rows of the first cycle are in both tables.
C18_Witness ==
    /\ sch[1].cycle = 2
    /\ sch[1].pc = "tips_start"
    /\ "opp" \in sch[1].invoked
    /\ \A r \in BagToSet(sch[1].cycle_pushes) : ~(r.rule = "opp" /\ r.user_id = 1)
    /\ \E row \in BagToSet(sent_opportunities) : row.user_id = 1
    /\ \E row \in BagToSet(notifications) :
          row.user_id = 1 /\ row.title = "Opportunity Nearby!"

\* C19: a place the Opportunity rule suggests has rating >= 4.5, is not in the
\* user's exclusion set (sent before, or planned by the user), and no
\* non-excluded place of the search result is rated strictly higher; when no
\* non-excluded place of the result has rating >= 4.5, a missing rating
\* counting as 0, the rule suggests nothing.
C19_BestQualifyingPlace ==
    [][\A s \in Schedulers :
          (sch[s].pc = "opp_search" /\ sch'[s].search.kind = "200")
          => LET places == sch'[s].search.results
                 u == sch[s].cur.user_id
                 rating(k) == IF "rating" \in places[k].keys THEN places[k].rating ELSE 0
                 excluded(k) ==
                     \/ \E row \in BagToSet(sent_opportunities) :
                           row.user_id = u /\ row.place_id = places[k].place_id
                     \/ \E i \in ItemIds :
                           /\ items[i].exists
                           /\ itineraries[items[i].itinerary_id].user_id = u
                           /\ items[i].place_id = places[k].place_id
                 open == {k \in 1..Len(places) : ~excluded(k)}
             IN  /\ (\A k \in open : rating(k) < MinRating) => pushes' = pushes
                 /\ \A r \in BagToSet(pushes') :
                       CopiesIn(r, pushes') > CopiesIn(r, pushes)
                       => \E k \in open : /\ places[k].place_id = r.place_id
                                          /\ rating(k) >= MinRating
                                          /\ \A j \in open : rating(j) <= rating(k)]_vars

\* User 1, who has planned pA, was sent pB (4.8) out of a result that lists
\* pC (4.6) first and pA (5.0) second.
C19_Witness ==
    /\ sch[1].pc = "opp_push"
    /\ sch[1].cur.user_id = 1
    /\ sch[1].cur.place_id = "pB"
    /\ Len(sch[1].search.results) = 3
    /\ sch[1].search.results[1].place_id = "pC"

\* C20: the Weather Tip rule evaluates an item of today (opted-in user with a
\* token, time inside the next 6 hours) whenever its category holds any one of
\* the outdoor tags, and never an item whose category holds none: a run of the
\* rule takes up exactly those items.
C20_AnyOutdoorTag ==
    [][\A s \in Schedulers :
          (sch[s].pc = "tips_start" /\ sch'[s].pc # "tips_start")
          => LET outdoor == {i \in Live :
                               /\ allow[ItemUser(items[i])]["allow_real_time_tips"]
                               /\ fcm_token[ItemUser(items[i])] # None
                               /\ items[i].scheduled_date = Today(now)
                               /\ fromisoformat(items[i].scheduled_time) # ValueError
                               /\ TimeOfDay(now) <= fromisoformat(items[i].scheduled_time)
                               /\ fromisoformat(items[i].scheduled_time)
                                     <= TimeOfDay(now) + TipsWindowMinutes
                               /\ \E ot \in outdoor_types : ot \in TagsIn(items[i].place_type)}
                 taken == IF sch'[s].pc = "tips_coords"
                          THEN {sch'[s].cur.id}
                                 \cup {sch'[s].queue[k].id : k \in 1..Len(sch'[s].queue)}
                          ELSE {}
             IN  taken = outdoor]_vars

\* C21: the Weather Tip rule keeps no marker on the item: every run that finds
\* rain near an outdoor item and an indoor alternative sends one Weather Tip
\* push naming the first alternative of the search result and stores one
\* Notification row for the user.
C21_EachRunPushesAndRecords ==
    [][\A s \in Schedulers :
          /\ (sch[s].pc = "tips_search" /\ sch'[s].pc = "tips_push")
               => pushes' = pushes (+) SetToBag({[rule |-> "tips",
                                                  to |-> sch[s].cur.fcm_token,
                                                  user_id |-> sch[s].cur.user_id,
                                                  item_id |-> sch[s].cur.id,
                                                  place_id |->
                                                     sch'[s].search.results[1].place_id]})
          /\ (sch[s].pc = "tips_push" /\ sch'[s] # sch[s])
               => notifications' =
                     notifications (+) SetToBag({[user_id |-> sch[s].cur.user_id,
                                                  title |-> "Heads Up: Rain Expected!",
                                                  subject |-> sch[s].cur.place_id]})]_vars

\* C22: the step that follows a push of the Opportunity rule or of the Weather
\* Tip rule commits exactly one Notification row, for the user of the push and
\* with its title and text, and no step of the Smart Departure rule writes a
\* Notification row.
C22_OneNotificationPerPush ==
    [][\A s \in Schedulers :
          /\ (sch[s].pc \in {"opp_push", "tips_push"} /\ sch'[s] # sch[s])
               => \E r \in BagToSet(sch[s].cycle_pushes) :
                     /\ r.rule = (IF sch[s].pc = "opp_push" THEN "opp" ELSE "tips")
                     /\ r.user_id = sch[s].cur.user_id
                     /\ r.place_id = sch[s].cur.place_id
                     /\ notifications' =
                           notifications (+) SetToBag({[user_id |-> r.user_id,
                               title |-> IF r.rule = "opp" THEN "Opportunity Nearby!"
                                         ELSE "Heads Up: Rain Expected!",
                               subject |-> r.place_id]})
          /\ (sch[s].pc \in {"smart_start", "smart_travel", "smart_push"} /\ sch'[s] # sch[s])
               => notifications' = notifications]_vars

\* C23: no failure of an upstream call (no reply, a timeout, a non-2xx reply;
\* geo, weather, places search or push) leaves the rule as an exception: the
\* step that takes the reply of such a call raises no request error and the
\* rule is still at work on its candidates or has returned.
UpstreamPcs == {"smart_travel", "smart_push", "opp_coords", "opp_search", "opp_push",
                "tips_coords", "tips_forecast", "tips_search", "tips_push"}
C23_UpstreamFailureStaysInRule ==
    [][\A s \in Schedulers :
          (sch[s].pc \in UpstreamPcs /\ sch'[s] # sch[s])
             => sch'[s].error # "RequestError"]_vars

\* C24: a malformed upstream reply (a place without place_id or name, a
\* forecast entry without dateTime) is taken like a failed call: the candidate
\* is skipped and the rule raises nothing, so no rule is ever left by the
\* error of a missing field.
C24_MalformedReplySkipped ==
    \A s \in Schedulers : sch[s].raised \in {"opp", "tips"} => sch[s].error # "KeyError"

\* C25: when a database operation fails in the middle of a rule, the exception
\* is taken by the handler of the scheduler loop: the rule's remaining
\* candidates are dropped, every notification_sent flag and every
\* SentOpportunity and Notification row stays as committed, the process sleeps
\* its 15 minutes, and the next cycle starts.
C25_DbFailureAbandonsRuleOnly ==
    /\ [][\A s \in Schedulers :
             (sch'[s].error = "OperationalError" /\ sch[s].error # "OperationalError")
             => /\ sch'[s].pc = "sleeping"
                /\ sch'[s].wake_at = now + SleepMinutes
                /\ sch'[s].queue = <<>>
                /\ sch'[s].raised \in {"smart", "opp", "tips"}
                /\ items' = items
                /\ sent_opportunities' = sent_opportunities
                /\ notifications' = notifications]_vars
    /\ \A n \in 1..MaxCycles :
          (sch[1].cycle = n /\ sch[1].error = "OperationalError") ~> (sch[1].cycle = n + 1)

\* The commit or a read of the Opportunity rule has failed in the second cycle,
\* after rows of the first cycle were committed.
C25_Witness ==
    /\ sch[1].error = "OperationalError"
    /\ sch[1].raised = "opp"
    /\ sch[1].cycle = 2
    /\ sent_opportunities # EmptyBag
    /\ \E i \in ItemIds : items[i].exists /\ items[i].notification_sent

\* C26: every cycle of a scheduler process invokes Smart Departure, then
\* Opportunity, then Weather Tip: a rule is invoked only after the rules before
\* it, the rule in progress (also while it waits for a reply) is the last one
\* invoked, and a cycle that is over has invoked all three.
C26_FixedOrderOneAtATime ==
    \A s \in Schedulers :
       /\ "opp" \in sch[s].invoked => "smart" \in sch[s].invoked
       /\ "tips" \in sch[s].invoked => "opp" \in sch[s].invoked
       /\ sch[s].pc \in {"smart_travel", "smart_push"} => sch[s].invoked = {"smart"}
       /\ sch[s].pc \in {"opp_coords", "opp_search", "opp_push"}
             => sch[s].invoked = {"smart", "opp"}
       /\ sch[s].pc \in {"tips_coords", "tips_forecast", "tips_search", "tips_push"}
             => sch[s].invoked = {"smart", "opp", "tips"}
       /\ (sch[s].pc = "sleeping" /\ sch[s].cycle >= 1)
             => sch[s].invoked = {"smart", "opp", "tips"}

\* C27: the Weather Tip rule evaluates an outdoor item of today (here one whose
\* category names every outdoor tag, of an opted-in user with a token) exactly
\* when now <= scheduled time <= now + 6 hours, also when now + 6 hours is
\* after midnight: a run of the rule takes up exactly those items.
C27_TipsWindowAcrossMidnight ==
    [][\A s \in Schedulers :
          (sch[s].pc = "tips_start" /\ sch'[s].pc # "tips_start")
          => LET ahead == {i \in Live :
                             /\ allow[ItemUser(items[i])]["allow_real_time_tips"]
                             /\ fcm_token[ItemUser(items[i])] # None
                             /\ items[i].scheduled_date = Today(now)
                             /\ fromisoformat(items[i].scheduled_time) # ValueError
                             /\ now <= items[i].scheduled_date * MinutesPerDay
                                         + fromisoformat(items[i].scheduled_time)
                             /\ items[i].scheduled_date * MinutesPerDay
                                  + fromisoformat(items[i].scheduled_time)
                                    <= now + TipsWindowMinutes
                             /\ \A ot \in outdoor_types : ot \in TagsIn(items[i].place_type)}
                 taken == IF sch'[s].pc = "tips_coords"
                          THEN {sch'[s].cur.id}
                                 \cup {sch'[s].queue[k].id : k \in 1..Len(sch'[s].queue)}
                          ELSE {}
             IN  taken = ahead]_vars

\* C28: with one scheduler cycling every 15 minutes and no call failing, an
\* item of today of a user who allows smart alerts and holds a token, in the
\* database since the scheduler started at least 90 minutes before its time,
\* has got its Smart Departure push once its scheduled time has passed.
C28_SmartPushByItsTime ==
    \A i \in Live :
       LET item_dt == items[i].scheduled_date * MinutesPerDay
                        + fromisoformat(items[i].scheduled_time)
       IN  ( /\ allow[ItemUser(items[i])]["allow_smart_alerts"]
             /\ fcm_token[ItemUser(items[i])] # None
             /\ fromisoformat(items[i].scheduled_time) # ValueError
             /\ items[i].scheduled_date = Today(now)
             /\ (now - ticks * SleepMinutes) + LookAheadMinutes <= item_dt
             /\ now > item_dt )
           => PushesForItem("smart", i) >= 1

\* C29: a push is addressed to the token its user holds at the moment it is
\* handed to the gateway, also when update_fcm_token has cleared, replaced or
\* moved the token since the rule ran its query.
C29_PushToCurrentToken ==
    [][\A r \in BagToSet(pushes') :
          CopiesIn(r, pushes') > CopiesIn(r, pushes)
             => r.to = fcm_token[r.user_id]]_vars

\* C30: notification_sent of an item turns true only in the Smart Departure
\* step that has just awaited the push for that item; that step turns it true
\* whatever the gateway answered; and an item that has been pushed once is not
\* pushed again by the rule.
C30_FlagFollowsAttempt ==
    [][/\ \A i \in Live :
            (~items[i].notification_sent /\ items'[i].notification_sent)
               => \E s \in Schedulers : sch[s].pc = "smart_push" /\ sch[s].cur.id = i
       /\ \A s \in Schedulers :
            (sch[s].pc = "smart_push" /\ sch'[s].pc # "smart_push")
               => items'[sch[s].cur.id].notification_sent
       /\ \A r \in BagToSet(pushes') :
            (r.rule = "smart" /\ CopiesIn(r, pushes') > CopiesIn(r, pushes))
               => PushesForItem("smart", r.item_id) = 0]_vars

====
